---- MODULE Spec2Model ----
(***************************************************************************)
(* Model of adblock-rust-check: the command line entry point               *)
(* (src/unnamed/part_000, scripts/check.js) and the client builders of     *)
(* src/lib/util.js.  One behaviour is one run of the script, or one call   *)
(* of a function exported by lib/util.js.                                  *)
(*                                                                         *)
(* Texts are sequences of tokens; the token NL is the newline character.   *)
(* An absent (undefined) option is the empty sequence, which is falsy as   *)
(* the empty string is in JavaScript.                                      *)
(***************************************************************************)
EXTENDS Integers, Sequences, FiniteSets, TLC

VARIABLES
  entry,        \* what runs: the script, or one exported function of lib/util.js
  commander,    \* the parsed command line options
  pc,           \* position of the run
  p,            \* the promise `p` of the script (the promise returned to a caller)
  calls,        \* the client builders of lib/util.js the run entered, in order
  aggregate,    \* branch of makeAdBlockClientFromListURL: "none", "array", "single"
  requests,     \* one record per request.get started, in call order
  results,      \* the array Promise.all fills, one slot per request
  fsReads,      \* paths read through fs, in order
  fsData,       \* contents the rule and snapshot reads returned, in order
  fsWrites,     \* [path, data] written through fs, in order
  engineCtor,   \* argument of every `new Engine(...)`, in order
  deserialized, \* argument of every client.deserialize(...), in order
  client,       \* the client the promise resolved with, or NONE
  checks,       \* arguments of every adBlockClient.check(...), in order
  statsCalls,   \* number of adBlockClient.getParsingStats() calls
  siteFile,     \* the content of the site list file, once read
  siteList,     \* the array readSiteList returned
  idx,          \* number of forEach iterations completed
  matchCount,
  skipCount,
  filter,       \* the transform passed to makeAdBlockClientFromListURL
  logged,       \* errors printed by the top-level catch, in order
  uncaught      \* the exception that escaped synchronously, or NONE

vars == <<entry, commander, pc, p, calls, aggregate, requests, results, fsReads,
          fsData, fsWrites, engineCtor, deserialized, client, checks, statsCalls, siteFile,
          siteList, idx, matchCount, skipCount, filter, logged, uncaught>>

----------------------------------------------------------------------------
(* Bounds of the model *)

\* number of descriptors in the built-in "default" catalog
NumDefaultLists == 3
\* site list files hold at most this many tokens
MaxSiteFileLen == 3
\* a Buffer handed out by fs.readFile starts at most this far into its pool
MaxPoolOffset == 1

----------------------------------------------------------------------------
(* Values *)

\* an option or a value that is undefined, and one that is given
NONE == <<>>
Some(v) == <<v>>
Present(v) == v # NONE
Value(v) == v[1]

NL == "\n"

\* a value with its constructor: a string, or an Array of strings
Str(t) == [isArray |-> FALSE, v |-> t]
Arr(xs) == [isArray |-> TRUE, v |-> xs]

RECURSIVE SeqsUpTo(_, _)
SeqsUpTo(S, n) ==
  IF n = 0 THEN {<<>>}
  ELSE LET shorter == SeqsUpTo(S, n - 1)
       IN shorter \cup {Append(s, x) : s \in {t \in shorter : Len(t) = n - 1}, x \in S}

\* String.prototype.split('\n')
Split(text) ==
  LET RECURSIVE go(_, _, _)
      go(i, cur, acc) ==
        IF i > Len(text) THEN Append(acc, cur)
        ELSE IF text[i] = NL THEN go(i + 1, <<>>, Append(acc, cur))
        ELSE go(i + 1, Append(cur, text[i]), acc)
  IN go(1, <<>>, <<>>)

\* Array.prototype.join('\n')
RECURSIVE Join(_)
Join(parts) ==
  IF Len(parts) = 0 THEN <<>>
  ELSE IF Len(parts) = 1 THEN parts[1]
  ELSE parts[1] \o <<NL>> \o Join(Tail(parts))

\* a rule line the sanitizer keeps
ValidLine(line) == \A i \in 1..Len(line) : line[i] # "x"

\* lib/filtering.js sanitizeABPInput: pure and idempotent, drops the lines
\* it does not accept
sanitizeABPInput(input) == Join(SelectSeq(Split(input), ValidLine))

----------------------------------------------------------------------------
(* The collaborators: catalog data, the web, the file system, the engine *)

\* the identifier of the i-th known list
Uuid(i) == ToString(i)

\* the identifier lib/util.js registers a transform for
FilteredUUID == "FBB430E8-3910-4761-9373-840FC3B43FF2"

\* adblock-rs lists("default"): the built-in default catalog
DefaultCatalog ==
  [i \in 1..NumDefaultLists |-> [uuid |-> Uuid(i), url |-> <<"default", i>>]]

\* adBlockLists.regions; its first identifier is also in the default catalog
RegionsCatalog ==
  << [uuid |-> Uuid(NumDefaultLists), url |-> <<"regions", 1>>],
     [uuid |-> Uuid(NumDefaultLists + 1), url |-> <<"regions", 2>>],
     [uuid |-> Uuid(NumDefaultLists + 2), url |-> <<"regions", 3>>] >>

\* adBlockLists.malware; its first identifier is also in the regions catalog
MalwareCatalog ==
  << [uuid |-> Uuid(NumDefaultLists + 2), url |-> <<"malware", 1>>],
     [uuid |-> FilteredUUID, url |-> <<"malware", 2>>] >>

\* identifiers a caller may pass; Uuid(0) is in no catalog
UUIDs == {Uuid(i) : i \in 0..(NumDefaultLists + 2)} \cup {FilteredUUID}

\* bodies a list server may answer with
Bodies == { <<"a">>, <<"x", NL, "b">>, <<"c", NL>> }

\* number of header lines the registered transform drops
HeaderLines == 4

\* the URL of a list whose text starts with a header
LibraryURL == <<"lib", 1>>

\* sequences of data lines such a list may hold after its header
DataLines ==
  { <<>>, << <<"d">> >>, << <<"d">>, <<"x">>, <<"e">> >>, << <<"d">>, <<>> >> }

\* a text of HeaderLines header lines followed by the lines ds
HeaderBody(ds) == Join([i \in 1..HeaderLines |-> <<"h">>] \o ds)

\* bodies the server of url may answer with
BodiesAt(url) ==
  IF url = LibraryURL THEN Bodies \cup {HeaderBody(ds) : ds \in DataLines}
  ELSE Bodies

\* status codes a list server may answer with
StatusCodes == {200, 404}

\* contents the site list file may have
SiteFiles == SeqsUpTo({"s", NL}, MaxSiteFileLen)

\* contents the .dat file may have
DatFiles ==
  { <<>>, <<"ADB">>, <<"ADB", "a", NL, "b">>, <<"ADB", "x", NL, "b">>, <<"a", NL, "b">> }

\* Engine.deserialize accepts a buffer that starts with the snapshot magic
ValidSnapshot(buf) == Len(buf) > 0 /\ buf[1] = "ADB"

\* new Engine(rules): the compiled client
Engine(rules) == [rules |-> rules]

\* client.deserialize(buf) on a valid snapshot: the client the snapshot holds
Deserialize(buf) == Engine(Split(Tail(buf)))

\* client.serialize()
Serialize(c) == <<"ADB">> \o Join(c.rules)

\* Array.prototype.find over a catalog: the first descriptor with this uuid
Find(catalog, uuid) ==
  LET hits == {i \in 1..Len(catalog) : catalog[i].uuid = uuid}
  IN IF hits = {} THEN NONE
     ELSE <<catalog[CHOOSE i \in hits : \A j \in hits : i <= j]>>

----------------------------------------------------------------------------
(* Errors and promises *)

Err(kind, about) == [kind |-> kind, about |-> about]

Pending == [state |-> "pending", value |-> NONE]
Resolved(v) == [state |-> "resolved", value |-> v]
Rejected(e) == [state |-> "rejected", value |-> e]

----------------------------------------------------------------------------
(* Initial states: one command line, or one call of an exported function *)

Script == entry.fn = "check.js"

Commanders ==
  [ uuid : {NONE} \cup {Some(u) : u \in UUIDs},
    dat : {NONE, Some("in.dat")},
    http : {NONE, Some(<<"web", 1>>)},
    filter : {NONE, Some(<<"a", NL, "b">>)},
    filterPath : {NONE, Some("rules.txt")},
    host : {NONE, Some("h.com")},
    location : {NONE, Some(<<"s">>)},
    list : {NONE, Some("sites.txt")},
    stats : BOOLEAN,
    output : {NONE, Some("out.dat")},
    filterOption : {"image", "script"} ]

\* commander with no option given; --filter-option defaults to 'image'
NoOptions ==
  [ uuid |-> NONE, dat |-> NONE, http |-> NONE, filter |-> NONE,
    filterPath |-> NONE, host |-> NONE, location |-> NONE, list |-> NONE,
    stats |-> FALSE, output |-> NONE, filterOption |-> "image" ]

\* calls of lib/util.js by another module
LibraryCalls ==
  {[fn |-> "makeAdBlockClientFromListUUID", arg |-> Some(u)] : u \in UUIDs}

\* makeAdBlockClientFromListURL(LibraryURL or [LibraryURL],
\* getListFilterFunction(uuid)) called by another module
ListURLCalls ==
  {[fn |-> "makeAdBlockClientFromListURL",
    arg |-> Some([isArray |-> a, uuid |-> u])] :
      a \in BOOLEAN, u \in {Uuid(1), FilteredUUID}}

\* path arguments of makeAdBlockClientFromFilePath: one path, or an Array
RulePaths == { <<"a.txt">>, <<"a.txt", "b.txt", "c.txt">> }

\* makeAdBlockClientFromFilePath called by another module
FilePathCalls ==
  {[fn |-> "makeAdBlockClientFromFilePath",
    arg |-> Some([isArray |-> Len(ps) > 1 \/ a, v |-> ps])] :
      a \in BOOLEAN, ps \in RulePaths}

UsageError == Err("Usage", "node check.js --location <location> --host <host> [--uuid <uuid>]")

Init ==
  /\ \/ /\ entry = [fn |-> "check.js", arg |-> NONE]
        /\ commander \in Commanders
        /\ p = Rejected(UsageError)
     \/ /\ \/ entry \in LibraryCalls
           \/ entry \in ListURLCalls
           \/ entry \in FilePathCalls
        /\ commander = NoOptions
        /\ p = Pending
  /\ pc = "Start"
  /\ calls = <<>>
  /\ aggregate = "none"
  /\ requests = <<>>
  /\ results = <<>>
  /\ filter = NONE
  /\ fsReads = <<>>
  /\ fsData = <<>>
  /\ fsWrites = <<>>
  /\ engineCtor = <<>>
  /\ deserialized = <<>>
  /\ client = NONE
  /\ checks = <<>>
  /\ statsCalls = 0
  /\ siteFile = NONE
  /\ siteList = <<>>
  /\ idx = 0
  /\ matchCount = 0
  /\ skipCount = 0
  /\ logged = <<>>
  /\ uncaught = NONE

ioVars == <<fsReads, fsData, fsWrites, engineCtor, deserialized, checks, statsCalls>>
loopVars == <<siteFile, siteList, idx, matchCount, skipCount>>
netVars == <<aggregate, requests, results, filter>>

----------------------------------------------------------------------------
(* How a step ends *)

\* an exception leaves the running code: the script dies, a caller sees it thrown
\* (the user of Throw says what becomes of calls)
Throw(e) ==
  /\ uncaught' = Some(e)
  /\ pc' = IF Script THEN "Crashed" ELSE "Threw"
  /\ UNCHANGED <<entry, commander, p, client, logged, ioVars, loopVars, netVars>>

\* a chain that runs the .then callback after a rejection too
RejectP_RunsThen(e) ==
  /\ p' = Rejected(e)
  /\ client' = client
  /\ logged' = logged
  /\ pc' = "ClientReady"

\* the promise rejects; in the script the .then callback is skipped and the
\* top-level .catch prints the error
RejectP(e) ==
  /\ p' = Rejected(e)
  /\ client' = client
  /\ logged' = IF Script THEN Append(logged, e) ELSE logged
  /\ pc' = IF Script THEN "Failed" ELSE "Rejected"

\* the promise resolves with a client
ResolveP(c) ==
  /\ p' = Resolved(c)
  /\ client' = Some(c)
  /\ logged' = logged
  /\ pc' = "ClientReady"

\* the .then callback throws: the chained promise rejects, .catch prints
DispatchFail(e) ==
  /\ logged' = Append(logged, e)
  /\ pc' = "Failed"

----------------------------------------------------------------------------
(* lib/util.js *)

\* a transform that prefixes every line, the header lines too
PrefixDomains_KeepsHeader(input) ==
  LET lines == Split(input)
  IN Join([i \in 1..Len(lines) |-> <<"||">> \o lines[i]])

\* the function getListFilterFunction returns for FilteredUUID
PrefixDomains(input) ==
  LET lines == Split(input)
      kept == SubSeq(lines, HeaderLines + 1, Len(lines))
  IN Join([i \in 1..Len(kept) |-> <<"||">> \o kept[i]])

getListFilterFunction(uuid) ==
  IF uuid = FilteredUUID THEN Some("PrefixDomains") ELSE NONE

\* filter(body)
ApplyFilter(f, body) ==
  IF Value(f) = "PrefixDomains" THEN PrefixDomains(body) ELSE body

\* the text makeAdBlockClientFromString splits into rules
RulesText(filterRuleData) ==
  IF filterRuleData.isArray THEN Join(filterRuleData.v) ELSE filterRuleData.v

\* the client makeAdBlockClientFromString resolves with
makeAdBlockClientFromString(filterRuleData) ==
  Engine(Split(RulesText(filterRuleData)))

\* a callback that does not look at the status code
SingleListData_AnyStatus(listURL, filterFn, response) ==
  IF response.error
    THEN [state |-> "rejected", value |-> [kind |-> "Request error", about |-> listURL]]
  ELSE [state |-> "resolved", value |-> sanitizeABPInput(response.body)]

\* the settlement of getSingleListDataFromSingleURL's promise when the
\* request.get callback runs with (error, response, body)
SingleListData(listURL, filterFn, response) ==
  IF response.error
    THEN Rejected(Err("Request error", listURL))
  ELSE IF response.statusCode # 200
    THEN Rejected(Err("Error status code", <<response.statusCode, listURL>>))
  ELSE Resolved(sanitizeABPInput(
         IF Present(filterFn) THEN ApplyFilter(filterFn, response.body)
         ELSE response.body))

\* what request.get(url) may call back with
Responses(url) ==
  {[error |-> TRUE, statusCode |-> 0, body |-> NONE]}
    \cup {[error |-> FALSE, statusCode |-> c, body |-> NONE] : c \in StatusCodes \ {200}}
    \cup {[error |-> FALSE, statusCode |-> 200, body |-> b] : b \in BodiesAt(url)}

\* a join that collects the values as they arrive
ResultSlot_ArrivalOrder(i, filled) ==
  1 + Cardinality({j \in DOMAIN filled : Present(filled[j])})

\* Promise.all keeps the value of the i-th promise passed to it in slot i
\* of its results, whatever was fulfilled before
ResultSlot(i, filled) == i

\* an Array branch that ends the joined text with a newline
AggregatedBody_TrailingNewline(branch, res) ==
  IF branch = "array"
    THEN sanitizeABPInput(Join([i \in 1..Len(res) |-> Value(res[i])]) \o <<NL>>)
  ELSE sanitizeABPInput(Value(res[1]))

\* the body makeAdBlockClientFromListURL builds the client from: on the
\* Array branch results.join('\n') sanitized (lines 91 to 94), on the other
\* branch listData sanitized (lines 100 to 102)
AggregatedBody(branch, res) ==
  IF branch = "array"
    THEN sanitizeABPInput(Join([i \in 1..Len(res) |-> Value(res[i])]))
  ELSE sanitizeABPInput(Value(res[1]))

\* makeAdBlockClientFromListURL(listURL, filter, options): starts one
\* request per URL
makeAdBlockClientFromListURL(listURL, filterFn) ==
  LET urls == IF listURL.isArray THEN listURL.v ELSE <<listURL.v>>
  IN /\ calls' = Append(calls, "makeAdBlockClientFromListURL")
     /\ requests' = [i \in 1..Len(urls) |->
                       [url |-> urls[i], state |-> "pending", response |-> NONE]]
     /\ results' = [i \in 1..Len(urls) |-> NONE]
     /\ aggregate' = IF listURL.isArray THEN "array" ELSE "single"
     /\ filter' = filterFn
     /\ p' = Pending
     /\ pc' = "AwaitFetch"
     /\ UNCHANGED <<entry, commander, client, logged, uncaught, ioVars, loopVars>>

\* makeAdBlockClientFromListUUID(uuid, options): the initializer of
\* `let list` reads `list` itself, in its temporal dead zone, so line 128
\* throws ReferenceError; lines 129 to 140 are never reached
makeAdBlockClientFromListUUID(uuid) ==
  /\ calls' = Append(calls, "makeAdBlockClientFromListUUID")
  /\ Throw(Err("ReferenceError", "list"))

\* makeAdBlockClientFromDATFile(datFilePath): starts fs.readFile
makeAdBlockClientFromDATFile(datFilePath) ==
  /\ calls' = Append(calls, "makeAdBlockClientFromDATFile")
  /\ fsReads' = Append(fsReads, datFilePath)
  /\ fsData' = fsData
  /\ p' = Pending
  /\ pc' = "AwaitDat"
  /\ UNCHANGED <<entry, commander, client, logged, uncaught, fsWrites, engineCtor,
                 deserialized, checks, statsCalls, loopVars, netVars>>

\* one request.get callback runs; Promise.all (or the single promise)
\* settles the outer promise on the first rejection or the last success
FetchComplete(i) ==
  /\ pc \in {"AwaitFetch", "Failed", "Rejected"}
  /\ requests[i].state = "pending"
  /\ \E response \in Responses(requests[i].url) :
       LET settled == SingleListData(requests[i].url, filter, response)
           reqs == [requests EXCEPT ![i] = [url |-> requests[i].url,
                                            state |-> settled.state,
                                            response |-> Some(response)]]
           res == IF settled.state = "resolved"
                    THEN [results EXCEPT ![ResultSlot(i, results)] = Some(settled.value)]
                    ELSE results
       IN /\ requests' = reqs
          /\ results' = res
          /\ IF p.state # "pending"
               THEN UNCHANGED <<p, client, logged, pc, engineCtor, calls>>
             ELSE IF settled.state = "rejected"
               THEN /\ RejectP(Err("getSingleListDataFromSingleURL error", settled.value))
                    /\ UNCHANGED <<engineCtor, calls>>
             ELSE IF \A j \in DOMAIN reqs : reqs[j].state = "resolved"
               THEN LET body == AggregatedBody(aggregate, res)
                    IN /\ calls' = Append(calls, "makeAdBlockClientFromString")
                       /\ engineCtor' = Append(engineCtor, Split(RulesText(Str(body))))
                       /\ ResolveP(makeAdBlockClientFromString(Str(body)))
             ELSE UNCHANGED <<p, client, logged, pc, engineCtor, calls>>
  /\ UNCHANGED <<entry, commander, uncaught, aggregate, filter, fsReads, fsData, fsWrites,
                 deserialized, checks, statsCalls, loopVars>>

\* the Buffer fs.readFile hands over: a view of byteLength bytes at
\* byteOffset into its ArrayBuffer
FileBuffer(content, offset) ==
  [ buffer |-> [i \in 1..offset |-> "pad"] \o content \o <<"pad">>,
    byteOffset |-> offset,
    byteLength |-> Len(content) ]

\* the whole ArrayBuffer behind the Buffer
BufferSlice_WholePool(data) == data.buffer

\* data.buffer.slice(data.byteOffset, data.byteOffset + data.byteLength)
BufferSlice(data) ==
  SubSeq(data.buffer, data.byteOffset + 1, data.byteOffset + data.byteLength)

\* the fs.readFile callback of makeAdBlockClientFromDATFile runs
DatReadComplete ==
  /\ pc = "AwaitDat"
  /\ \/ /\ RejectP(Err("ENOENT", fsReads[Len(fsReads)]))
        /\ UNCHANGED <<engineCtor, deserialized, uncaught, fsData>>
     \/ \E content \in DatFiles, offset \in 0..MaxPoolOffset :
          LET buf == BufferSlice(FileBuffer(content, offset))
          IN /\ fsData' = Append(fsData, content)
             /\ engineCtor' = Append(engineCtor, <<>>)
             /\ deserialized' = Append(deserialized, buf)
             /\ IF ValidSnapshot(buf)
                  THEN ResolveP(Deserialize(buf)) /\ UNCHANGED uncaught
                  ELSE \* deserialize throws inside the callback: nothing catches it
                       /\ uncaught' = Some(Err("DeserializationError", buf))
                       /\ pc' = "Crashed"
                       /\ UNCHANGED <<p, client, logged>>
  /\ UNCHANGED <<entry, commander, calls, fsReads, fsWrites, checks, statsCalls,
                 loopVars, netVars>>

----------------------------------------------------------------------------
(* The script: source selection *)

\* a guard that asks for any one of the query options
UsageGuard_AnyOption ==
  \/ Present(commander.host) \/ Present(commander.location)
  \/ Present(commander.list) \/ commander.stats

\* a guard that lets --host through alone
UsageGuard_HostAlone ==
  Present(commander.host) \/ commander.stats

\* the condition of line 46
UsageGuard ==
  \/ Present(commander.host) /\ (Present(commander.location) \/ Present(commander.list))
  \/ commander.stats

\* the script never declares parseOptions: evaluating it as an argument
\* throws ReferenceError before the call is made
ParseOptionsDeclared == FALSE

\* a call whose argument list names parseOptions
WithParseOptions(call) ==
  IF ParseOptionsDeclared THEN call
  ELSE Throw(Err("ReferenceError", "parseOptions")) /\ UNCHANGED calls

\* the guard fails: p stays the rejected usage promise, .catch prints it
UsageFailure ==
  /\ pc = "Start" /\ Script
  /\ ~UsageGuard
  /\ logged' = Append(logged, p.value)
  /\ pc' = "Failed"
  /\ UNCHANGED <<entry, commander, p, calls, client, uncaught, ioVars, loopVars, netVars>>

SelectUUID ==
  /\ pc = "Start" /\ Script /\ UsageGuard
  /\ Present(commander.uuid)
  /\ WithParseOptions(makeAdBlockClientFromListUUID(Value(commander.uuid)))

SelectDAT ==
  /\ pc = "Start" /\ Script /\ UsageGuard
  /\ ~Present(commander.uuid) /\ Present(commander.dat)
  /\ makeAdBlockClientFromDATFile(Value(commander.dat))

SelectHTTP ==
  /\ pc = "Start" /\ Script /\ UsageGuard
  /\ ~Present(commander.uuid) /\ ~Present(commander.dat)
  /\ Present(commander.http)
  /\ WithParseOptions(makeAdBlockClientFromListURL(Str(Value(commander.http)), NONE))

\* makeAdBlockClientFromString(commander.filter, parseOptions)
StartFromString(filterRuleData) ==
  /\ calls' = Append(calls, "makeAdBlockClientFromString")
  /\ engineCtor' = Append(engineCtor, Split(RulesText(filterRuleData)))
  /\ ResolveP(makeAdBlockClientFromString(filterRuleData))
  /\ UNCHANGED <<entry, commander, uncaught, fsReads, fsData, fsWrites, deserialized,
                 checks, statsCalls, loopVars, netVars>>

SelectFilter ==
  /\ pc = "Start" /\ Script /\ UsageGuard
  /\ ~Present(commander.uuid) /\ ~Present(commander.dat) /\ ~Present(commander.http)
  /\ Present(commander.filter)
  /\ WithParseOptions(StartFromString(Str(Value(commander.filter))))

\* fs.readFileSync may find any rule text, or no file
RuleFiles == Bodies

\* makeAdBlockClientFromFilePath(filePath, options)
makeAdBlockClientFromFilePath(filePath) ==
  LET paths == IF filePath.isArray THEN filePath.v ELSE <<filePath.v>>
  IN \/ \E k \in 1..Len(paths) :
          \* the k-th read throws inside the executor: the promise rejects
          /\ calls' = Append(calls, "makeAdBlockClientFromFilePath")
          /\ fsReads' = fsReads \o SubSeq(paths, 1, k)
          /\ fsData' = fsData
          /\ RejectP(Err("ENOENT", paths[k]))
          /\ UNCHANGED <<entry, commander, uncaught, fsWrites, engineCtor,
                         deserialized, checks, statsCalls, loopVars, netVars>>
     \/ \E contents \in [1..Len(paths) -> RuleFiles] :
          LET filterRuleData == IF filePath.isArray THEN Arr(contents)
                                ELSE Str(contents[1])
          IN /\ calls' = calls \o <<"makeAdBlockClientFromFilePath",
                                    "makeAdBlockClientFromString">>
             /\ fsReads' = fsReads \o paths
             /\ fsData' = fsData \o contents
             /\ engineCtor' = Append(engineCtor, Split(RulesText(filterRuleData)))
             /\ ResolveP(makeAdBlockClientFromString(filterRuleData))
             /\ UNCHANGED <<entry, commander, uncaught, fsWrites, deserialized,
                            checks, statsCalls, loopVars, netVars>>

SelectFilterPath ==
  /\ pc = "Start" /\ Script /\ UsageGuard
  /\ ~Present(commander.uuid) /\ ~Present(commander.dat) /\ ~Present(commander.http)
  /\ ~Present(commander.filter) /\ Present(commander.filterPath)
  /\ WithParseOptions(makeAdBlockClientFromFilePath(Str(Value(commander.filterPath))))

\* new lists("default").map((listObj) => listObj.url)
defaultLists == [i \in 1..Len(DefaultCatalog) |-> DefaultCatalog[i].url]

SelectDefault ==
  /\ pc = "Start" /\ Script /\ UsageGuard
  /\ ~Present(commander.uuid) /\ ~Present(commander.dat) /\ ~Present(commander.http)
  /\ ~Present(commander.filter) /\ ~Present(commander.filterPath)
  /\ makeAdBlockClientFromListURL(Arr(defaultLists), NONE)

\* another module calls an exported function
LibraryCall ==
  /\ pc = "Start" /\ ~Script
  /\ \/ /\ entry.fn = "makeAdBlockClientFromListUUID"
        /\ makeAdBlockClientFromListUUID(Value(entry.arg))
     \/ /\ entry.fn = "makeAdBlockClientFromListURL"
        /\ makeAdBlockClientFromListURL(
             IF Value(entry.arg).isArray THEN Arr(<<LibraryURL>>) ELSE Str(LibraryURL),
             getListFilterFunction(Value(entry.arg).uuid))
     \/ /\ entry.fn = "makeAdBlockClientFromFilePath"
        /\ makeAdBlockClientFromFilePath(
             IF Value(entry.arg).isArray THEN Arr(Value(entry.arg).v)
             ELSE Str(Value(entry.arg).v[1]))

----------------------------------------------------------------------------
(* The script: the .then callback of p *)

\* `https://${commander.host}`
Origin(host) == "https://" \o host

\* the value of an option where the code reads it
OptionValue(v) == IF Present(v) THEN Value(v) ELSE "undefined"

\* a dispatcher that looks at --location before --stats
QueryMode_LocationFirst ==
  IF Present(commander.location) THEN "single"
  ELSE IF commander.stats THEN "stats"
  ELSE "batch"

\* the branch the .then callback takes: lines 67, 71 and 77
QueryMode ==
  IF commander.stats THEN "stats"
  ELSE IF Present(commander.location) THEN "single"
  ELSE "batch"

\* lines 67 to 70: print the stats and return
ReportStats ==
  /\ pc = "ClientReady" /\ Script
  /\ QueryMode = "stats"
  /\ statsCalls' = statsCalls + 1
  /\ pc' = "Done"
  /\ UNCHANGED <<entry, commander, p, calls, client, logged, uncaught, fsReads, fsData,
                 fsWrites, engineCtor, deserialized, checks, loopVars, netVars>>

\* lines 71 to 76: one check of --location, which returns a verdict or throws
SingleQuery ==
  /\ pc = "ClientReady" /\ Script
  /\ QueryMode = "single"
  /\ checks' = Append(checks, << Value(commander.location),
                                 Origin(OptionValue(commander.host)),
                                 commander.filterOption >>)
  /\ \/ pc' = "Persist" /\ UNCHANGED logged
     \/ DispatchFail(Err("CheckError", Value(commander.location)))
  /\ UNCHANGED <<entry, commander, p, calls, client, uncaught, fsReads, fsData,
                 fsWrites, engineCtor, deserialized, statsCalls, loopVars, netVars>>

\* a reader that leaves the empty lines out
readSiteList_NoEmptyLines(content) ==
  SelectSeq(Split(content), LAMBDA line : line # <<>>)

\* readSiteList(path): fs.readFileSync(path, 'utf8').split('\n')
readSiteList(content) == Split(content)

\* line 78: the site list is read, or the read throws
ReadSiteList ==
  /\ pc = "ClientReady" /\ Script
  /\ QueryMode = "batch"
  /\ fsData' = fsData
  /\ \/ /\ Present(commander.list)
        /\ fsReads' = Append(fsReads, Value(commander.list))
        /\ \E content \in SiteFiles :
             /\ siteFile' = Some(content)
             /\ siteList' = readSiteList(content)
             /\ idx' = 0 /\ matchCount' = 0 /\ skipCount' = 0
             /\ pc' = "BatchLoop"
             /\ UNCHANGED logged
     \/ /\ fsReads' = IF Present(commander.list)
                        THEN Append(fsReads, Value(commander.list)) ELSE fsReads
        /\ DispatchFail(IF Present(commander.list)
                          THEN Err("ENOENT", Value(commander.list))
                          ELSE Err("TypeError", "path"))
        /\ UNCHANGED loopVars
  /\ UNCHANGED <<entry, commander, p, calls, client, uncaught, fsWrites, engineCtor,
                 deserialized, checks, statsCalls, netVars>>

\* lines 82 to 88: one iteration of siteList.forEach; a check that throws
\* ends the loop and the callback
BatchStep ==
  /\ pc = "BatchLoop"
  /\ idx < Len(siteList)
  /\ checks' = Append(checks, << siteList[idx + 1],
                                 commander.filterOption,
                                 OptionValue(commander.host) >>)
  /\ \/ /\ \E verdict \in BOOLEAN :
             /\ matchCount' = IF verdict THEN matchCount + 1 ELSE matchCount
             /\ skipCount' = IF verdict THEN skipCount ELSE skipCount + 1
        /\ idx' = idx + 1
        /\ UNCHANGED <<pc, logged>>
     \/ /\ DispatchFail(Err("CheckError", siteList[idx + 1]))
        /\ UNCHANGED <<idx, matchCount, skipCount>>
  /\ UNCHANGED <<entry, commander, p, calls, client, uncaught, fsReads, fsData,
                 fsWrites, engineCtor, deserialized, statsCalls, siteFile, siteList,
                 netVars>>

\* lines 89 to 91: the loop is over, the counts are printed
BatchEnd ==
  /\ pc = "BatchLoop"
  /\ idx = Len(siteList)
  /\ pc' = "Persist"
  /\ UNCHANGED <<entry, commander, p, calls, client, logged, uncaught, ioVars,
                 loopVars, netVars>>

\* a callback that writes the snapshot as soon as the client is there
PersistSnapshot_BeforeQuery ==
  /\ pc = "ClientReady" /\ Script
  /\ Present(commander.output) /\ fsWrites = <<>>
  /\ fsWrites' = Append(fsWrites, [path |-> Value(commander.output),
                                   data |-> Serialize(Value(client))])
  /\ UNCHANGED <<entry, commander, pc, p, calls, client, logged, uncaught, fsReads,
                 fsData, engineCtor, deserialized, checks, statsCalls, loopVars,
                 netVars>>

\* lines 93 to 95 with --output: serialize and write, or the write throws
PersistSnapshot ==
  /\ pc = "Persist"
  /\ Present(commander.output)
  /\ \/ /\ fsWrites' = Append(fsWrites, [path |-> Value(commander.output),
                                         data |-> Serialize(Value(client))])
        /\ pc' = "Done"
        /\ UNCHANGED logged
     \/ /\ DispatchFail(Err("EACCES", Value(commander.output)))
        /\ UNCHANGED fsWrites
  /\ UNCHANGED <<entry, commander, p, calls, client, uncaught, fsReads, fsData, engineCtor,
                 deserialized, checks, statsCalls, loopVars, netVars>>

\* lines 93 to 95 without --output
Finish ==
  /\ pc = "Persist"
  /\ ~Present(commander.output)
  /\ pc' = "Done"
  /\ UNCHANGED <<entry, commander, p, calls, client, logged, uncaught, ioVars,
                 loopVars, netVars>>

----------------------------------------------------------------------------

Next ==
  \/ UsageFailure
  \/ SelectUUID
  \/ SelectDAT
  \/ SelectHTTP
  \/ SelectFilter
  \/ SelectFilterPath
  \/ SelectDefault
  \/ LibraryCall
  \/ \E i \in DOMAIN requests : FetchComplete(i)
  \/ DatReadComplete
  \/ ReportStats
  \/ SingleQuery
  \/ ReadSiteList
  \/ BatchStep
  \/ BatchEnd
  \/ PersistSnapshot
  \/ Finish

Spec == Init /\ [][Next]_vars

----------------------------------------------------------------------------
(* Properties *)

\* the guard as the design states it
GuardPasses ==
  \/ commander.stats
  \/ Present(commander.host) /\ (Present(commander.location) \/ Present(commander.list))

\* the run is a script run that got past the guard
Selected == Script /\ pc # "Start" /\ GuardPasses

\* the builder the precedence order names for this command line
PrecedenceSource ==
  IF Present(commander.uuid) THEN "makeAdBlockClientFromListUUID"
  ELSE IF Present(commander.dat) THEN "makeAdBlockClientFromDATFile"
  ELSE IF Present(commander.http) THEN "makeAdBlockClientFromListURL"
  ELSE IF Present(commander.filter) THEN "makeAdBlockClientFromString"
  ELSE IF Present(commander.filterPath) THEN "makeAdBlockClientFromFilePath"
  ELSE "makeAdBlockClientFromListURL"

\* C1: once a run has passed the guard, exactly one source builder has been
\* started, the one of highest priority among uuid > dat > http > filter >
\* filter-path > default lists; the only other builder ever entered is the
\* construction from text that the chosen source ends in.
C1_SourcePrecedence ==
  Selected =>
    /\ Len(calls) >= 1
    /\ calls[1] = PrecedenceSource
    /\ \A k \in 2..Len(calls) : calls[k] = "makeAdBlockClientFromString"
    /\ (Present(commander.uuid) \/ Present(commander.dat)) => requests = <<>>
    /\ Present(commander.uuid) => fsReads = <<>>

\* C2: a script run whose flags do not pass the guard (no --stats, and not
\* --host with --location or --list) only ever ends in the usage failure:
\* no request, no file read, no engine construction, no deserialize, no
\* check and no file write happens, and the one error printed is the usage
\* error.
C2_UsageFailureWithoutIO ==
  (Script /\ ~GuardPasses) =>
    /\ pc \in {"Start", "Failed"}
    /\ requests = <<>> /\ fsReads = <<>> /\ fsWrites = <<>>
    /\ engineCtor = <<>> /\ deserialized = <<>> /\ client = NONE
    /\ checks = <<>> /\ statsCalls = 0 /\ calls = <<>>
    /\ pc = "Failed" => (Len(logged) = 1 /\ logged[1].kind = "Usage")

\* --host alone, with a source flag given, has ended in the usage failure
C2_Witness ==
  /\ Script /\ pc = "Failed"
  /\ Present(commander.host) /\ ~Present(commander.location)
  /\ ~Present(commander.list) /\ ~commander.stats
  /\ Present(commander.dat) /\ Present(commander.output)

\* every request of the aggregation got status 200 and a body
AllFetched ==
  /\ aggregate = "array"
  /\ \A i \in DOMAIN requests :
       /\ Present(requests[i].response)
       /\ ~Value(requests[i].response).error
       /\ Value(requests[i].response).statusCode = 200

\* sanitize(sanitize(A) + "\n" + sanitize(B) + ...) over the bodies the
\* servers returned, in the order of the URLs
OrderedAggregate ==
  sanitizeABPInput(Join([i \in 1..Len(requests) |->
                           sanitizeABPInput(Value(requests[i].response).body)]))

\* C3: when all fetches of a multi-URL remote source (no transform) have
\* succeeded, in whatever order they completed, the requests are those of
\* the URLs in input order and the one engine constructed got the lines of
\* sanitize(sanitize(A) + "\n" + sanitize(B) + "\n" + sanitize(C)).
C3_OrderedAggregation ==
  (AllFetched /\ filter = NONE) =>
    /\ Script => [i \in 1..Len(requests) |-> requests[i].url] = defaultLists
    /\ engineCtor = <<Split(OrderedAggregate)>>
    /\ client = Some(Engine(Split(OrderedAggregate)))

\* three different bodies, one of them changed by the sanitizer, have been
\* aggregated into a client
C3_Witness ==
  /\ AllFetched /\ Len(requests) >= 3
  /\ Value(requests[1].response).body = <<"x", NL, "b">>
  /\ Value(requests[2].response).body = <<"a">>
  /\ Value(requests[3].response).body = <<"c", NL>>
  /\ pc = "ClientReady"
  /\ engineCtor = << << <<"b">>, <<"a">>, <<"c">>, <<>> >> >>

\* the request's callback ran with a transport error or a status other than 200
FetchFailed(r) ==
  /\ Present(r.response)
  /\ Value(r.response).error \/ Value(r.response).statusCode # 200

\* C4: in a multi-URL aggregation, from the moment one fetch has ended with
\* a transport error or a status other than 200, whatever the siblings do
\* before or after, no engine is constructed, no client exists, no check
\* and no stats call is made and nothing is written; the promise is
\* rejected.
C4_AggregationFailsWhole ==
  (aggregate = "array" /\ \E i \in DOMAIN requests : FetchFailed(requests[i])) =>
    /\ engineCtor = <<>> /\ client = NONE
    /\ checks = <<>> /\ statsCalls = 0 /\ fsWrites = <<>>
    /\ p.state = "rejected"
    /\ pc \in {"Failed", "Rejected"}

\* the second of three fetches got a 404, the first and the third succeeded
C4_Witness ==
  /\ aggregate = "array" /\ Len(requests) >= 3
  /\ Present(requests[2].response) /\ Value(requests[2].response).statusCode = 404
  /\ \A i \in DOMAIN requests \ {2} : requests[i].state = "resolved"
  /\ Present(commander.output) /\ pc = "Failed"


\* C5: a script run that reaches Done with --output given has serialized
\* its client and written the buffer to the output path, whichever of the
\* three modes ran (stats, single query, batch).
C5_PersistedInEveryMode ==
  (Script /\ pc = "Done" /\ Present(commander.output)) =>
    /\ Len(fsWrites) = 1
    /\ fsWrites[1].path = Value(commander.output)
    /\ fsWrites[1].data = Serialize(Value(client))

\* the run resolves a catalog identifier: --uuid past the guard, or a call
\* of makeAdBlockClientFromListUUID
ResolvesUUID ==
  /\ pc # "Start"
  /\ \/ Script /\ GuardPasses /\ Present(commander.uuid)
     \/ entry.fn = "makeAdBlockClientFromListUUID"

\* the identifier being resolved
ResolvedUUID == IF Script THEN Value(commander.uuid) ELSE Value(entry.arg)

\* the descriptor the catalogs hold for an identifier: default, then
\* regions, then malware
CatalogDescriptor(uuid) ==
  IF Present(Find(DefaultCatalog, uuid)) THEN Find(DefaultCatalog, uuid)
  ELSE IF Present(Find(RegionsCatalog, uuid)) THEN Find(RegionsCatalog, uuid)
  ELSE Find(MalwareCatalog, uuid)

\* C6: resolving an identifier that some catalog holds starts exactly one
\* fetch, of the URL of the descriptor found in default before regions
\* before malware.
C6_CatalogPriority ==
  (ResolvesUUID /\ Present(CatalogDescriptor(ResolvedUUID))) =>
    /\ Len(requests) = 1
    /\ requests[1].url = Value(CatalogDescriptor(ResolvedUUID)).url

\* C7: resolving an identifier that no catalog holds ends in a promise
\* rejected with the not-found error naming the identifier, with no
\* request started, no file read and no file written.
C7_NotFoundRejects ==
  (ResolvesUUID /\ ~Present(CatalogDescriptor(ResolvedUUID))) =>
    /\ p.state = "rejected"
    /\ p.value.kind = "No list found for UUID"
    /\ p.value.about = ResolvedUUID
    /\ uncaught = NONE
    /\ requests = <<>> /\ fsReads = <<>> /\ fsWrites = <<>>

\* the CheckQuery triple for a target: the target, the origin synthesized
\* from --host, the resource type hint
CheckQuery(target) ==
  << target, Origin(OptionValue(commander.host)), commander.filterOption >>

\* C8: every check of a run gets the CheckQuery triple of its target: in
\* batch mode the k-th check gets the arguments single mode gives for
\* --location set to the k-th site.
C8_BatchChecksLikeSingle ==
  \A k \in 1..Len(checks) :
    checks[k] = CheckQuery(IF QueryMode = "batch" THEN siteList[k]
                           ELSE Value(commander.location))

\* the batch loop of a script run has gone through the whole site list
BatchOver ==
  /\ Script /\ Present(siteFile) /\ pc \in {"Persist", "Done", "Failed"}
  /\ idx = Len(siteList)

\* the lines of a text; a newline at the end of the text ends its last line
FileLines(text) ==
  IF Len(text) > 0 /\ text[Len(text)] = NL
    THEN Split(SubSeq(text, 1, Len(text) - 1))
    ELSE IF text = <<>> THEN <<>> ELSE Split(text)

\* the site list file consists of N >= 1 non-empty lines
OnlyNonEmptyLines(text) ==
  /\ Len(FileLines(text)) >= 1
  /\ \A k \in 1..Len(FileLines(text)) : FileLines(text)[k] # <<>>

\* C9 as stated: over a site list file of N >= 1 non-empty lines, with or
\* without a newline at its end, batch mode ends with
\* matchCount + skipCount = N, and during the loop the sum is the number of
\* lines checked so far.
C9_CountsNonEmptyLines ==
  /\ matchCount + skipCount = idx
  /\ (BatchOver /\ OnlyNonEmptyLines(Value(siteFile))) =>
       matchCount + skipCount = Len(FileLines(Value(siteFile)))

\* number of newline characters of a text
Newlines(text) == Cardinality({i \in 1..Len(text) : text[i] = NL})

\* C9 as amended: during the loop matchCount + skipCount is the number of
\* checks made so far; batch mode ends with matchCount + skipCount equal to
\* the number of pieces split('\n') cuts the file into, its newline
\* characters plus one: N for a file of N >= 1 non-empty lines without a
\* newline at its end, N + 1 with one.
C9_CountsSplitPieces ==
  /\ matchCount + skipCount = idx
  /\ pc = "BatchLoop" => (idx = Len(checks) /\ idx <= Len(siteList))
  /\ BatchOver =>
       /\ matchCount + skipCount = Newlines(Value(siteFile)) + 1
       /\ Len(checks) = matchCount + skipCount
       /\ OnlyNonEmptyLines(Value(siteFile)) =>
            matchCount + skipCount =
              Len(FileLines(Value(siteFile)))
                + (IF Len(Value(siteFile)) > 0
                      /\ Value(siteFile)[Len(Value(siteFile))] = NL
                   THEN 1 ELSE 0)

\* a file of one non-empty line and a newline at its end was checked: two
\* checks, one of the empty string
C9_Witness ==
  /\ BatchOver /\ pc = "Done"
  /\ siteFile = Some(<<"s", "s", NL>>)
  /\ matchCount = 1 /\ skipCount = 1
  /\ checks[2][1] = <<>>

\* C10: with --stats a script run makes no check, reads no site list and
\* never enters the query or persist steps, whatever --host, --location and
\* --list are; once the client is ready the run ends having asked the
\* engine for its parsing stats once.
C10_StatsOnly ==
  (Script /\ commander.stats) =>
    /\ checks = <<>> /\ siteFile = NONE /\ siteList = <<>>
    /\ \A k \in 1..Len(fsReads) : ~(Present(commander.list)
                                    /\ fsReads[k] = Value(commander.list))
    /\ pc \notin {"BatchLoop", "Persist"}
    /\ statsCalls = (IF pc = "Done" THEN 1 ELSE 0)
    /\ Present(client) => pc \in {"ClientReady", "Done"}

\* --stats with --host, --location and --list all given has printed the stats
C10_Witness ==
  /\ Script /\ commander.stats /\ pc = "Done" /\ statsCalls = 1
  /\ Present(commander.host) /\ Present(commander.location)
  /\ Present(commander.list)

\* no path and no URL occurs twice among the reads and requests of the run
NoRetry ==
  /\ \A i, j \in DOMAIN fsReads : fsReads[i] = fsReads[j] => i = j
  /\ \A i, j \in DOMAIN requests : requests[i].url = requests[j].url => i = j

\* the script run has ended without completing
FailedRun == Script /\ pc \in {"Failed", "Crashed"}

\* C11: a failing script run has its error printed exactly once by the
\* top-level .catch, nothing escapes uncaught, no run prints more than one
\* error, and no path or URL is read or fetched twice.
C11_ErrorsReportedOnce ==
  /\ Len(logged) <= 1
  /\ NoRetry
  /\ FailedRun => (Len(logged) = 1 /\ uncaught = NONE)

\* the run takes its rules from local files: --filter-path is the selected
\* source of a script run, or another module called the builder
FilePathRun ==
  \/ Selected /\ PrecedenceSource = "makeAdBlockClientFromFilePath"
  \/ entry.fn = "makeAdBlockClientFromFilePath" /\ pc # "Start"

\* the error the run ended with, if any
Failure ==
  IF Present(uncaught) THEN uncaught
  ELSE IF Script /\ Len(logged) > 0 THEN Some(logged[1])
  ELSE IF p.state = "rejected" THEN Some(p.value)
  ELSE NONE

\* C12: a local-file run that ends without a client has failed with the
\* filesystem error of an unreadable path, caught as a rejection, having
\* read the paths up to the unreadable one; no engine was constructed, no
\* query made and nothing written.
C12_FilterPathFailsBeforeClient ==
  (FilePathRun /\ ~Present(client)) =>
    /\ Present(Failure) /\ Value(Failure).kind = "ENOENT"
    /\ uncaught = NONE
    /\ Len(fsReads) >= 1 /\ Value(Failure).about = fsReads[Len(fsReads)]
    /\ engineCtor = <<>> /\ checks = <<>> /\ statsCalls = 0 /\ fsWrites = <<>>

\* the run loaded its client from a snapshot file
DatRun == deserialized # <<>>

\* C13: the bytes written to the output path are exactly what serialize
\* returned for the client of the run; the buffer given to deserialize in
\* a --dat run is exactly the content of the file read, given once to an
\* engine constructed empty, and the client of the run is the one those
\* bytes hold, so a snapshot that is loaded and written again is written
\* unchanged and deserialize(serialize(c)) gives back c.
C13_SnapshotRoundTrip ==
  /\ \A k \in DOMAIN fsWrites :
       /\ fsWrites[k].data = Serialize(Value(client))
       /\ Deserialize(fsWrites[k].data) = Value(client)
  /\ DatRun =>
       /\ Len(deserialized) = 1 /\ Len(fsData) = 1
       /\ deserialized[1] = fsData[1]
       /\ engineCtor = << <<>> >>
       /\ Present(client) =>
            /\ Value(client) = Deserialize(fsData[1])
            /\ \A k \in DOMAIN fsWrites : fsWrites[k].data = fsData[1]

\* a snapshot holding a line the sanitizer would drop was loaded and
\* written again
C13_Witness ==
  /\ Script /\ DatRun /\ pc = "Done"
  /\ fsData = << <<"ADB", "x", NL, "b">> >>
  /\ Len(fsWrites) = 1
  /\ Value(client).rules = << <<"x">>, <<"b">> >>

\* the identifier whose registered transform the run fetches with, if any
TransformOf ==
  IF entry.fn = "makeAdBlockClientFromListURL" THEN Some(Value(entry.arg).uuid)
  ELSE NONE

\* the lines "||d1" .. "||dn" joined by newline
Prefixed(ds) == Join([k \in 1..Len(ds) |-> <<"||">> \o ds[k]])

\* C14: a body of 4 header lines followed by lines d1..dn fetched with the
\* transform registered for FBB430E8-3910-4761-9373-840FC3B43FF2 reaches
\* the sanitizer as "||d1" .. "||dn" joined by newline, in that order; a
\* body fetched for any other identifier, or for none, reaches the
\* sanitizer unchanged.
C14_RegisteredTransform ==
  \A i \in DOMAIN requests :
    requests[i].state = "resolved" =>
      LET body == Value(requests[i].response).body
      IN IF TransformOf = Some(FilteredUUID)
           THEN \A ds \in DataLines :
                  body = HeaderBody(ds) =>
                    results[i] = Some(sanitizeABPInput(Prefixed(ds)))
         ELSE /\ filter = NONE
              /\ results[i] = Some(sanitizeABPInput(body))

\* 4 header lines and the lines d, x, e were fetched with the registered
\* transform: "||d" and "||e" are left after the sanitizer
C14_Witness ==
  /\ TransformOf = Some(FilteredUUID)
  /\ Len(requests) = 1 /\ pc = "ClientReady"
  /\ requests[1].state = "resolved"
  /\ Value(requests[1].response).body =
       <<"h", NL, "h", NL, "h", NL, "h", NL, "d", NL, "x", NL, "e">>
  /\ results[1] = Some(<<"||", "d", NL, "||", "e">>)

\* sanitize(sanitize(A) + "\n" + sanitize(B) + ...) over the contents read
\* from the rule files, in the order of the paths
LocalAggregate ==
  sanitizeABPInput(Join([i \in 1..Len(fsData) |-> sanitizeABPInput(fsData[i])]))

\* C15: a client built from local rule files got the lines of
\* sanitize(sanitize(A) + "\n" + sanitize(B) + "\n" + sanitize(C)), A, B
\* and C being the contents of the files in path order: what a remote
\* source returning the same contents is built from.
C15_LocalFilesAggregated ==
  (FilePathRun /\ Present(client)) =>
    /\ engineCtor = <<Split(LocalAggregate)>>
    /\ client = Some(Engine(Split(LocalAggregate)))

\* the engine has been asked for stats, a verdict or a snapshot
ClientUsed == statsCalls > 0 \/ checks # <<>> \/ fsWrites # <<>>

\* C16: a run constructs at most one engine; while no client has been
\* built (construction not started, pending, or failed) no getParsingStats,
\* check or serialize call has been made; once one has been made, the
\* client exists, p resolved with it, and it is the only engine constructed.
C16_ClientBuiltOnceBeforeUse ==
  /\ Len(engineCtor) <= 1
  /\ Len(deserialized) <= 1
  /\ Present(client) => (Len(engineCtor) = 1 /\ p = Resolved(Value(client)))
  /\ ~Present(client) => (~ClientUsed /\ pc \notin {"ClientReady", "BatchLoop", "Persist", "Done"})
  /\ ClientUsed => Present(client)

\* a script run built one client, checked with it and wrote its snapshot
C16_Witness ==
  /\ Script /\ pc = "Done"
  /\ Len(engineCtor) = 1 /\ Present(client)
  /\ Len(checks) >= 1 /\ Len(fsWrites) = 1

\* the query phase of the script run is over and nothing in it threw
QueryPhaseDone ==
  /\ logged = <<>> /\ uncaught = NONE
  /\ QueryMode = "single" => Len(checks) = 1
  /\ QueryMode = "batch" =>
       /\ Present(siteFile) /\ idx = Len(siteList)
       /\ Len(checks) = Len(siteList)

\* C17: a run writes at most once, and only to the --output path of a
\* script run that has built its client and finished its query phase
\* without error; a run in which source resolution, client construction,
\* the site-list read or a check failed has written nothing.
C17_SnapshotWrittenLast ==
  /\ Len(fsWrites) <= 1
  /\ fsWrites # <<>> =>
       /\ Script /\ pc = "Done"
       /\ Present(commander.output) /\ fsWrites[1].path = Value(commander.output)
       /\ Present(client)
       /\ QueryPhaseDone
  /\ (logged # <<>> \/ Present(uncaught)) => fsWrites = <<>>

\* a batch run with --output checked every site and then wrote the snapshot
C17_Witness ==
  /\ Script /\ pc = "Done" /\ QueryMode = "batch"
  /\ Len(fsWrites) = 1 /\ Len(checks) >= 2
  /\ QueryPhaseDone

\* the run is in the batch branch of the dispatcher, or went through it
BatchBranch == Script /\ Present(client) /\ QueryMode = "batch"

\* C18: a script run that has its client and neither --stats nor
\* --location was given both --list and --host; the site list is read
\* from the --list path, never from an absent one (no TypeError for a
\* missing path), and no other run reads a site list.
C18_BatchHasListAndHost ==
  /\ BatchBranch => (Present(commander.list) /\ Present(commander.host))
  /\ \A k \in DOMAIN logged : logged[k].kind # "TypeError"
  /\ Present(siteFile) =>
       /\ BatchBranch
       /\ fsReads[Len(fsReads)] = Value(commander.list)

\* a batch run has read its site list from the --list path
C18_Witness ==
  /\ BatchBranch /\ pc = "BatchLoop"
  /\ Present(siteFile)
  /\ fsReads[Len(fsReads)] = "sites.txt"

\* another module called makeAdBlockClientFromListURL with one URL, as a
\* string or as an Array of one string, and the request has completed
OneURLFetched ==
  /\ entry.fn = "makeAdBlockClientFromListURL"
  /\ Len(requests) = 1 /\ requests[1].url = LibraryURL
  /\ Present(requests[1].response)

\* sanitize(sanitize(transform(body))) for the body the server returned
SingleText ==
  LET body == Value(requests[1].response).body
  IN sanitizeABPInput(sanitizeABPInput(
       IF Present(filter) THEN ApplyFilter(filter, body) ELSE body))

\* C19: whichever of the two forms the one URL was passed in, a fetch that
\* got status 200 leads to one engine constructed from the lines of
\* sanitize(sanitize(transform(body))) and a promise resolved with it; any
\* other fetch outcome rejects the promise with the wrapped fetch error
\* and constructs nothing.
C19_SingleOrOneElementArray ==
  OneURLFetched =>
    IF requests[1].state = "resolved"
      THEN /\ engineCtor = <<Split(SingleText)>>
           /\ p = Resolved(Engine(Split(SingleText)))
           /\ client = Some(p.value)
    ELSE /\ p.state = "rejected"
         /\ p.value.kind = "getSingleListDataFromSingleURL error"
         /\ engineCtor = <<>> /\ client = NONE

\* the URL was passed as an Array of one string and the body fetched ends
\* with a newline: the client has the rule and the empty line after it
C19_Witness ==
  /\ OneURLFetched /\ Value(entry.arg).isArray
  /\ aggregate = "array" /\ filter = NONE
  /\ Value(requests[1].response).body = <<"c", NL>>
  /\ engineCtor = << << <<"c">>, <<>> >> >>
  /\ pc = "ClientReady"

====
